---- MODULE Spec2Model ----
(***************************************************************************)
(* LifespanMiddleware.__call__ of asgi_lifespan_middleware/_middleware.py, *)
(* lifespan scope: one handshake instance between an ASGI server (the      *)
(* supervisor), the wrapped application (the owned component) and the      *)
(* caller's lifespan context manager (the resource scope).                 *)
(*                                                                         *)
(* The coordinator is one coroutine; pc is its position.  The application  *)
(* and the context manager are environments: the application may call     *)
(* wrapped_rcv and wrapped_send in any order and then return or raise, the *)
(* context manager's __aenter__ and __aexit__ each return or raise.  The   *)
(* server's receive() blocks until a message is queued, its send() always  *)
(* accepts.  __aexit__ is taken not to suppress a pending exception.       *)
(***************************************************************************)
EXTENDS Naturals, Sequences, FiniteSets

VARIABLES
    pc,           \* position of the coordinator coroutine
    send_events,  \* types the application passed to wrapped_send
    rcv_events,   \* types the application got from wrapped_rcv
    inbox,        \* messages the server queued and nobody received yet
    supSent,      \* how many messages the server has queued so far
    out,          \* messages handed to the server's send(), in order
    exc,          \* exception in flight, or the one the call raised
    returning,    \* the body left the async-with block through `return`
    lifespan,     \* resource scope: "new", "entered", "enter_raised"
    exitCount,    \* times the resource scope's __aexit__ was called
    app,          \* application: "idle", "running", "returned", "raised"
    appSent,      \* types the application sent, in order
    appRecvs,     \* receives performed by the application
    mwRecvs       \* receives performed by the coordinator itself

vars ==
    << pc, send_events, rcv_events, inbox, supSent, out, exc, returning,
       lifespan, exitCount, app, appSent, appRecvs, mwRecvs >>

\* ------------------------------------------------------------- bounds
\* Most calls of wrapped_send the application makes in one run.
MaxAppSends == 3

\* Most calls of wrapped_rcv the application makes in one run.
MaxAppRecvs == 2

\* ------------------------------------------------------ message types
Startup == "lifespan.startup"

Shutdown == "lifespan.shutdown"

StartupComplete == "lifespan.startup.complete"

StartupFailed == "lifespan.startup.failed"

ShutdownComplete == "lifespan.shutdown.complete"

ShutdownFailed == "lifespan.shutdown.failed"

\* Types an application may pass to its send callable.
AppKinds == {StartupComplete, StartupFailed, ShutdownComplete, ShutdownFailed}

\* A message as the server sees it: its type, who produced it, and the text
\* of its "message" key ("" when the key is absent or not set by the
\* coordinator).
Msg(t, origin, text) == [type |-> t, origin |-> origin, text |-> text]

\* ------------------------------------------------- the server's side
\* The server queues lifespan.startup, then lifespan.shutdown.
ServerNext(n) == IF n = 0 THEN Startup ELSE Shutdown

ServerSend ==
    /\ supSent < 2
    /\ inbox' = Append(inbox, ServerNext(supSent))
    /\ supSent' = supSent + 1
    /\ UNCHANGED << pc, send_events, rcv_events, out, exc, returning,
                    lifespan, exitCount, app, appSent, appRecvs, mwRecvs >>

\* A server that follows the ASGI lifespan protocol: lifespan.shutdown is
\* queued only once it has been told that startup completed.
ProtocolServerSend ==
    /\ supSent = 1 => \E i \in 1..Len(out) : out[i].type = StartupComplete
    /\ ServerSend

\* ------------------------------------------------------- __call__
\* Call with line 61 left out: the application is called with the resource
\* scope never entered.
CallWithoutLifespan ==
    /\ pc = "start"
    /\ pc' = "call_app"
    /\ send_events' = {}
    /\ rcv_events' = {}
    /\ UNCHANGED << inbox, supSent, out, exc, returning, lifespan, exitCount,
                    app, appSent, appRecvs, mwRecvs >>

\* Lines 25-60: fresh event ledgers, lifespan_cm built, cleanup() entered
\* (it runs to its yield and sends nothing).
Call ==
    /\ pc = "start"
    /\ pc' = "enter_lifespan"
    /\ send_events' = {}
    /\ rcv_events' = {}
    /\ UNCHANGED << inbox, supSent, out, exc, returning, lifespan, exitCount,
                    app, appSent, appRecvs, mwRecvs >>

\* The unwinding with __aexit__ pushed before __aenter__ ran.
UnwindThroughLifespanExit == "exit_lifespan"

\* The unwinding with the failure of __aenter__ swallowed.
UnwindIntoApp == "call_app"

\* Where the exit stack unwinds to when lifespan_cm's __aenter__ raised: the
\* context manager was not pushed, so only cleanup() is left on the stack.
UnwindAfterEnterRaised == "cleanup"

\* Line 61: await stack.enter_async_context(lifespan_cm).
EnterLifespan ==
    /\ pc = "enter_lifespan"
    /\ \/ /\ lifespan' = "entered"
          /\ pc' = "call_app"
          /\ exc' = exc
       \/ /\ lifespan' = "enter_raised"
          /\ pc' = UnwindAfterEnterRaised
          /\ exc' = "EnterError"
    /\ UNCHANGED << send_events, rcv_events, inbox, supSent, out, returning,
                    exitCount, app, appSent, appRecvs, mwRecvs >>

\* Line 80: await self._app(scope, wrapped_rcv, wrapped_send).
CallApp ==
    /\ pc = "call_app"
    /\ pc' = "in_app"
    /\ app' = "running"
    /\ UNCHANGED << send_events, rcv_events, inbox, supSent, out, exc,
                    returning, lifespan, exitCount, appSent, appRecvs,
                    mwRecvs >>

\* ------------------------------------------------- the application
\* Lines 28-31: wrapped_rcv, called by the application.  receive() blocks
\* until the server has queued a message.
wrapped_rcv ==
    /\ pc = "in_app"
    /\ appRecvs < MaxAppRecvs
    /\ inbox # << >>
    /\ rcv_events' = rcv_events \cup {Head(inbox)}
    /\ inbox' = Tail(inbox)
    /\ appRecvs' = appRecvs + 1
    /\ UNCHANGED << pc, send_events, supSent, out, exc, returning, lifespan,
                    exitCount, app, appSent, mwRecvs >>

\* wrapped_send holding back every shutdown terminal message, not only
\* lifespan.shutdown.complete.
ForwardsOnlyStartup(t) == t \in {StartupComplete, StartupFailed}

\* wrapped_send without the test of line 35.
ForwardsEverything(t) == TRUE

\* Line 35: the types wrapped_send passes on to the server's send().
Forwarded(t) == t # ShutdownComplete

\* Lines 33-39: wrapped_send(message), called by the application.
wrapped_send(t) ==
    /\ pc = "in_app"
    /\ Len(appSent) < MaxAppSends
    /\ send_events' = send_events \cup {t}
    /\ appSent' = Append(appSent, t)
    /\ out' = IF Forwarded(t) THEN Append(out, Msg(t, "app", "")) ELSE out
    /\ UNCHANGED << pc, rcv_events, inbox, supSent, exc, returning, lifespan,
                    exitCount, app, appRecvs, mwRecvs >>

AppSend == \E t \in AppKinds : wrapped_send(t)

\* What an application that follows the ASGI lifespan protocol may send
\* next: one startup terminal message after it received lifespan.startup,
\* one shutdown terminal message after it completed startup and received
\* lifespan.shutdown.
ProtocolAllows(t) ==
    \/ /\ t \in {StartupComplete, StartupFailed}
       /\ appSent = << >>
       /\ Startup \in rcv_events
    \/ /\ t \in {ShutdownComplete, ShutdownFailed}
       /\ appSent = << StartupComplete >>
       /\ Shutdown \in rcv_events

ProtocolAppSend == \E t \in AppKinds : ProtocolAllows(t) /\ wrapped_send(t)

\* The application's call returns.
AppReturn ==
    /\ pc = "in_app"
    /\ pc' = "app_done"
    /\ app' = "returned"
    /\ UNCHANGED << send_events, rcv_events, inbox, supSent, out, exc,
                    returning, lifespan, exitCount, appSent, appRecvs,
                    mwRecvs >>

\* The application's call raises.
AppRaise ==
    /\ pc = "in_app"
    /\ pc' = "app_done"
    /\ app' = "raised"
    /\ UNCHANGED << send_events, rcv_events, inbox, supSent, out, exc,
                    returning, lifespan, exitCount, appSent, appRecvs,
                    mwRecvs >>

\* ------------------------------------------- after the application
\* The except clause with the test of lines 82-85 left out: every exception
\* of the application is re-raised.
ReraisesAlways(events) == TRUE

\* Lines 82-85: the except clause re-raises when the application reported
\* a failure itself.
Reraises(events) ==
    StartupFailed \in events \/ ShutdownFailed \in events

\* The test of line 99 never taken: the coordinator leaves the handshake to
\* the application whatever it sent.
ImpersonatesNever(events) == FALSE

\* Line 99: the coordinator talks to the server on the application's behalf.
Impersonates(events) == StartupComplete \notin events

\* Lines 81-99: the except clause and the two tests on send_events that
\* follow the application's call.
AfterApp ==
    /\ pc = "app_done"
    /\ IF app = "raised" /\ Reraises(send_events)
       THEN /\ exc' = "AppError"
            /\ returning' = returning
            /\ pc' = "exit_lifespan"
       ELSE IF StartupFailed \in send_events
       THEN /\ exc' = exc
            /\ returning' = TRUE
            /\ pc' = "exit_lifespan"
       ELSE /\ exc' = exc
            /\ returning' = returning
            /\ pc' = IF Impersonates(send_events)
                     THEN "receive_startup"
                     ELSE "exit_lifespan"
    /\ UNCHANGED << send_events, rcv_events, inbox, supSent, out, lifespan,
                    exitCount, app, appSent, appRecvs, mwRecvs >>

\* Line 102: await receive().
ReceiveStartup ==
    /\ pc = "receive_startup"
    /\ inbox # << >>
    /\ inbox' = Tail(inbox)
    /\ mwRecvs' = mwRecvs + 1
    /\ pc' = "send_startup_complete"
    /\ UNCHANGED << send_events, rcv_events, supSent, out, exc, returning,
                    lifespan, exitCount, app, appSent, appRecvs >>

\* Line 103: await send({"type": "lifespan.startup.complete"}).
SendStartupComplete ==
    /\ pc = "send_startup_complete"
    /\ out' = Append(out, Msg(StartupComplete, "coordinator", ""))
    /\ pc' = "receive_shutdown"
    /\ UNCHANGED << send_events, rcv_events, inbox, supSent, exc, returning,
                    lifespan, exitCount, app, appSent, appRecvs, mwRecvs >>

\* Line 105 left out: the coordinator goes on to its teardown without
\* waiting for the server.
ReceiveShutdownSkipped ==
    /\ pc = "receive_shutdown"
    /\ pc' = "exit_lifespan"
    /\ UNCHANGED << send_events, rcv_events, inbox, supSent, out, exc,
                    returning, lifespan, exitCount, app, appSent, appRecvs,
                    mwRecvs >>

\* Line 105: await receive().
ReceiveShutdown ==
    /\ pc = "receive_shutdown"
    /\ inbox # << >>
    /\ inbox' = Tail(inbox)
    /\ mwRecvs' = mwRecvs + 1
    /\ pc' = "exit_lifespan"
    /\ UNCHANGED << send_events, rcv_events, supSent, out, exc, returning,
                    lifespan, exitCount, app, appSent, appRecvs >>

\* --------------------------------------------- the exit stack unwinds
\* Line 59, on leaving the block: the stack calls lifespan_cm's __aexit__
\* with the exception in flight, if any.  __aexit__ returns, leaving that
\* exception in flight, or raises its own.
ExitLifespan ==
    /\ pc = "exit_lifespan"
    /\ exitCount' = exitCount + 1
    /\ \/ exc' = exc
       \/ exc' = "ExitError"
    /\ pc' = "cleanup"
    /\ UNCHANGED << send_events, rcv_events, inbox, supSent, out, returning,
                    lifespan, app, appSent, appRecvs, mwRecvs >>

\* cleanup() with the two branches of line 47 swapped.
CleanupMessageSwapped(e, events) ==
    IF e = "None" THEN ShutdownComplete
    ELSE IF StartupComplete \in events THEN StartupFailed
    ELSE ShutdownFailed

\* Lines 43-55: the message cleanup() sends once control comes back to its
\* yield, given the exception thrown into it and the ledger.
CleanupMessage(e, events) ==
    IF e = "None" THEN ShutdownComplete
    ELSE IF StartupComplete \in events THEN ShutdownFailed
    ELSE StartupFailed

\* Lines 41-55: cleanup() after its yield.  With an exception it sends a
\* failed message carrying traceback.format_exc() and re-raises; without,
\* it sends lifespan.shutdown.complete, and the call goes on after the
\* async-with block unless the block was left through `return`.
cleanup ==
    /\ pc = "cleanup"
    /\ out' = Append(out, Msg(CleanupMessage(exc, send_events), "coordinator",
                              IF exc = "None" THEN "" ELSE exc))
    /\ pc' = IF exc # "None" THEN "raised"
             ELSE IF returning THEN "returned"
             ELSE "send_shutdown_complete"
    /\ UNCHANGED << send_events, rcv_events, inbox, supSent, exc, returning,
                    lifespan, exitCount, app, appSent, appRecvs, mwRecvs >>

\* Line 107: await send({"type": "lifespan.shutdown.complete"}).
SendShutdownComplete ==
    /\ pc = "send_shutdown_complete"
    /\ out' = Append(out, Msg(ShutdownComplete, "coordinator", ""))
    /\ pc' = "returned"
    /\ UNCHANGED << send_events, rcv_events, inbox, supSent, exc, returning,
                    lifespan, exitCount, app, appSent, appRecvs, mwRecvs >>

\* ------------------------------------------------------ specifications
\* The state after LifespanMiddleware(app, lifespan=...) was constructed
\* and before the server calls it.
Init ==
    /\ pc = "start"
    /\ send_events = {}
    /\ rcv_events = {}
    /\ inbox = << >>
    /\ supSent = 0
    /\ out = << >>
    /\ exc = "None"
    /\ returning = FALSE
    /\ lifespan = "new"
    /\ exitCount = 0
    /\ app = "idle"
    /\ appSent = << >>
    /\ appRecvs = 0
    /\ mwRecvs = 0

\* The coordinator's own steps.
Coordinator ==
    \/ Call
    \/ EnterLifespan
    \/ CallApp
    \/ AfterApp
    \/ ReceiveStartup
    \/ SendStartupComplete
    \/ ReceiveShutdown
    \/ ExitLifespan
    \/ cleanup
    \/ SendShutdownComplete

\* Any application, any server timing.
Next ==
    \/ Coordinator
    \/ ServerSend
    \/ wrapped_rcv
    \/ AppSend
    \/ AppReturn
    \/ AppRaise

Spec == Init /\ [][Next]_vars

\* An application and a server that both follow the ASGI lifespan protocol.
ProtocolNext ==
    \/ Coordinator
    \/ ProtocolServerSend
    \/ wrapped_rcv
    \/ ProtocolAppSend
    \/ AppReturn
    \/ AppRaise

ProtocolSpec == Init /\ [][ProtocolNext]_vars

TypeOK ==
    /\ pc \in {"start", "enter_lifespan", "call_app", "in_app", "app_done",
               "receive_startup", "send_startup_complete", "receive_shutdown",
               "exit_lifespan", "cleanup", "send_shutdown_complete",
               "returned", "raised"}
    /\ send_events \subseteq AppKinds
    /\ rcv_events \subseteq {Startup, Shutdown}
    /\ supSent \in 0..2
    /\ exc \in {"None", "EnterError", "AppError", "ExitError"}
    /\ returning \in BOOLEAN
    /\ lifespan \in {"new", "entered", "enter_raised"}
    /\ app \in {"idle", "running", "returned", "raised"}
    /\ appRecvs \in 0..MaxAppRecvs
    /\ Len(appSent) <= MaxAppSends

\* ------------------------------------------------------------ claims
\* Positions in out of the messages whose type is in kinds.
Delivered(kinds) == {i \in 1..Len(out) : out[i].type \in kinds}

StartupTerminal == {StartupComplete, StartupFailed}

ShutdownTerminal == {ShutdownComplete, ShutdownFailed}

\* The call of the coordinator has returned or raised.
Done == pc \in {"returned", "raised"}

\* The types of the messages delivered to the server, in order.
OutTypes == [i \in 1..Len(out) |-> out[i].type]

\* C1: the server receives at most one startup terminal message
\* (lifespan.startup.complete or lifespan.startup.failed), forwarded or
\* originated by the coordinator.
C1_AtMostOneStartupTerminal ==
    Cardinality(Delivered(StartupTerminal)) <= 1

\* C2: the server receives at most one shutdown terminal message
\* (lifespan.shutdown.complete or lifespan.shutdown.failed), whether sent
\* by cleanup(), after the exit stack closed, or forwarded.
C2_AtMostOneShutdownTerminal ==
    Cardinality(Delivered(ShutdownTerminal)) <= 1

\* C3: once the call has returned or raised, the server has received a
\* startup terminal message and, if a lifespan.startup.complete was
\* delivered, a shutdown terminal message as well.
C3_TerminalsNeverMissing ==
    Done =>
        /\ Delivered(StartupTerminal) # {}
        /\ Delivered({StartupComplete}) # {} => Delivered(ShutdownTerminal) # {}

\* C4: a shutdown terminal message is delivered only after a
\* lifespan.startup.complete was delivered earlier in the same run.
C4_ShutdownOnlyAfterStartupComplete ==
    \A i \in Delivered(ShutdownTerminal) :
        \E j \in Delivered({StartupComplete}) : j < i

\* C5: the resource scope is exited at most once; when its enter succeeded
\* it has been exited exactly once by the time the call returns or raises;
\* when its enter raised it is never exited.
C5_ExitExactlyOnceIfEntered ==
    /\ exitCount <= 1
    /\ (Done /\ lifespan = "entered") => exitCount = 1
    /\ lifespan # "entered" => exitCount = 0

\* The application reported a shutdown failure and raised, and the call
\* ended with the resource scope entered and exited once.
C5_Witness ==
    /\ pc = "raised"
    /\ app = "raised"
    /\ ShutdownFailed \in send_events
    /\ lifespan = "entered"
    /\ exitCount = 1

\* C6: onion ordering.  The application is invoked only once the resource
\* scope's enter has succeeded, the resource scope's exit is called only
\* once the application's call has returned or raised, and a
\* lifespan.shutdown.complete is delivered only once that exit has run.
C6_OnionOrdering ==
    [][ /\ (app = "idle" /\ app' # "idle") => lifespan = "entered"
        /\ exitCount' # exitCount => app \in {"returned", "raised"}
        /\ Delivered({ShutdownComplete})' # Delivered({ShutdownComplete})
               => exitCount = 1 ]_vars

\* A participant's clean run: it received both requests, sent both complete
\* messages and returned; the scope was exited and lifespan.shutdown.complete
\* delivered.
C6_Witness ==
    /\ pc = "returned"
    /\ appSent = << StartupComplete, ShutdownComplete >>
    /\ rcv_events = {Startup, Shutdown}
    /\ exitCount = 1
    /\ Delivered({ShutdownComplete}) # {}

\* C7: whenever a lifespan.startup.complete has been delivered to the
\* server, forwarded or originated by the coordinator, the resource scope's
\* enter has completed successfully.
C7_StartupCompleteImpliesEntered ==
    Delivered({StartupComplete}) # {} => lifespan = "entered"

\* The coordinator originated lifespan.startup.complete for an application
\* that sent nothing.
C7_Witness ==
    /\ appSent = << >>
    /\ \E i \in 1..Len(out) : out[i] = Msg(StartupComplete, "coordinator", "")

\* C8: a lifespan.shutdown.complete sent by the application is never
\* forwarded, and every lifespan.shutdown.complete the server receives is
\* originated by the coordinator after the resource scope's exit finished.
C8_ShutdownCompleteOwned ==
    \A i \in Delivered({ShutdownComplete}) :
        out[i].origin = "coordinator" /\ exitCount = 1

\* The application sent lifespan.shutdown.complete and the server got one.
C8_Witness ==
    /\ ShutdownComplete \in send_events
    /\ Delivered({ShutdownComplete}) # {}

\* C9: when the resource scope's enter raises E, the server receives
\* exactly [lifespan.startup.failed] (its text that of E), E is re-raised,
\* the application is never invoked and the coordinator receives nothing.
C9_EnterFailure ==
    lifespan = "enter_raised" =>
        /\ app = "idle"
        /\ mwRecvs = 0 /\ appRecvs = 0
        /\ exitCount = 0
        /\ pc \in {"cleanup", "raised"}
        /\ exc = "EnterError"
        /\ out = IF pc = "raised"
                 THEN << Msg(StartupFailed, "coordinator", "EnterError") >>
                 ELSE << >>

\* The enter raised and the call has raised in turn.
C9_Witness ==
    lifespan = "enter_raised" /\ pc = "raised"

\* C10: when a lifespan.startup.complete was delivered and the resource
\* scope's exit then raises E, the server receives exactly
\* [lifespan.startup.complete, lifespan.shutdown.failed] and E is raised;
\* no lifespan.startup.failed follows a lifespan.startup.complete.
C10_TeardownFailureReported ==
    /\ (Done /\ exc = "ExitError" /\ Delivered({StartupComplete}) # {}) =>
           /\ pc = "raised"
           /\ OutTypes = << StartupComplete, ShutdownFailed >>
    /\ \A i \in Delivered({StartupFailed}) :
           \A j \in Delivered({StartupComplete}) : i < j

\* C11: when the application raises E after it sent
\* lifespan.startup.complete, whether or not it also sent
\* lifespan.shutdown.failed, then by the end of the call the resource
\* scope's exit has run, a lifespan.shutdown.failed has been delivered and
\* the call has raised (E, or the exit's own exception if the exit raised
\* as well).
C11_ShutdownFaultReported ==
    (Done /\ app = "raised" /\ StartupComplete \in send_events) =>
        /\ exitCount = 1
        /\ Delivered({ShutdownFailed}) # {}
        /\ pc = "raised"
        /\ exc \in {"AppError", "ExitError"}

\* C12: when the application sends lifespan.startup.failed and then raises
\* E, having sent nothing else, the server receives the application's
\* lifespan.startup.failed and no message originated by the coordinator,
\* the resource scope's exit has run and the call has raised (E, or the
\* exit's own exception if the exit raised as well).
C12_StartupFaultAlreadyReported ==
    (Done /\ app = "raised" /\ appSent = << StartupFailed >>) =>
        /\ out = << Msg(StartupFailed, "app", "") >>
        /\ exitCount = 1
        /\ pc = "raised"
        /\ exc \in {"AppError", "ExitError"}

\* The coordinator's side of a run once the application's call is over and
\* the except clause has been passed, for an application that sent nothing:
\* what was delivered, what the coordinator received itself and whether the
\* resource scope was exited, at each position.  The application's outcome
\* (returned or raised) does not occur in it.
SilentAppCourse ==
    /\ ~returning
    /\ exc \in {"None", "ExitError"}
    /\ exc = "ExitError" => pc \in {"cleanup", "raised"}
    /\ CASE pc = "receive_startup" ->
                OutTypes = << >> /\ mwRecvs = 0 /\ exitCount = 0
         [] pc = "send_startup_complete" ->
                OutTypes = << >> /\ mwRecvs = 1 /\ exitCount = 0
         [] pc = "receive_shutdown" ->
                OutTypes = << StartupComplete >> /\ mwRecvs = 1 /\ exitCount = 0
         [] pc = "exit_lifespan" ->
                OutTypes = << StartupComplete >> /\ mwRecvs = 2 /\ exitCount = 0
         [] pc = "cleanup" ->
                OutTypes = << StartupComplete >> /\ mwRecvs = 2 /\ exitCount = 1
         [] pc = "send_shutdown_complete" ->
                /\ OutTypes = << StartupComplete, ShutdownComplete >>
                /\ mwRecvs = 2 /\ exitCount = 1
         [] pc = "returned" ->
                /\ OutTypes = << StartupComplete, ShutdownComplete,
                                 ShutdownComplete >>
                /\ mwRecvs = 2 /\ exitCount = 1
         [] pc = "raised" ->
                /\ OutTypes = << StartupComplete, StartupFailed >>
                /\ mwRecvs = 2 /\ exitCount = 1
         [] OTHER -> FALSE

\* C13: a fault raised by an application that never sent a message is
\* suppressed: it is never the exception in flight, a *.failed message is
\* delivered only when the resource scope's exit raised, and from the
\* except clause on the coordinator's course (messages delivered, its own
\* receives, the teardown) is the one of a run whose application returned
\* without raising.
C13_SilentFaultSuppressed ==
    (appSent = << >> /\ app \in {"returned", "raised"} /\ pc # "app_done") =>
        /\ exc # "AppError"
        /\ Delivered({StartupFailed, ShutdownFailed}) # {} => exc = "ExitError"
        /\ SilentAppCourse

\* The application raised without sending anything, and the call returned.
C13_Witness ==
    /\ app = "raised"
    /\ appSent = << >>
    /\ pc = "returned"

\* Positions in out of the lifespan.startup.complete messages the
\* coordinator originated.
OwnStartupComplete ==
    {i \in 1..Len(out) : out[i] = Msg(StartupComplete, "coordinator", "")}

\* The end of a run in which the coordinator did the handshake on the
\* application's behalf: one lifespan.startup.complete, its own, was
\* delivered, both requests were received by the coordinator, the resource
\* scope was exited and the application's fault, if any, was not raised.
HandshakeDoneOnBehalf ==
    /\ Cardinality(OwnStartupComplete) = 1
    /\ Cardinality(Delivered({StartupComplete})) = 1
    /\ mwRecvs = 2
    /\ exitCount = 1
    /\ exc # "AppError"

\* C14 as stated: in every run whose application never sent
\* lifespan.startup.complete (the resource scope having been entered), the
\* coordinator has by the end of the call sent exactly one
\* lifespan.startup.complete itself and completed the handshake, the
\* application's fault swallowed.
C14_AsStated ==
    (Done /\ lifespan = "entered" /\ StartupComplete \notin send_events) =>
        HandshakeDoneOnBehalf

\* C14, amended: the same for every run whose application sent neither
\* lifespan.startup.complete nor lifespan.startup.failed and did not raise
\* after sending lifespan.shutdown.failed.
C14_OnBehalfOfSilentApp ==
    ( /\ Done
      /\ lifespan = "entered"
      /\ StartupComplete \notin send_events
      /\ StartupFailed \notin send_events
      /\ ~(app = "raised" /\ ShutdownFailed \in send_events) ) =>
        HandshakeDoneOnBehalf

\* The application raised without sending anything; the coordinator sent
\* its own lifespan.startup.complete, received both requests and returned.
C14_Witness ==
    /\ pc = "returned"
    /\ app = "raised"
    /\ appSent = << >>
    /\ OwnStartupComplete # {}
    /\ mwRecvs = 2

\* C15: for an application that returned or raised without sending any
\* message, the coordinator's lifespan.startup.complete is delivered only
\* after the coordinator received one message itself, the resource scope is
\* exited only after the coordinator received a second one, and as long as
\* the server has not sent lifespan.shutdown the call has not ended, the
\* resource scope is entered and not exited, and no shutdown terminal
\* message has been delivered.
C15_NonParticipantWaitsForShutdown ==
    (appSent = << >> /\ app \in {"returned", "raised"}) =>
        /\ OwnStartupComplete # {} => mwRecvs >= 1
        /\ exitCount > 0 => mwRecvs = 2
        /\ supSent < 2 =>
               /\ ~Done
               /\ lifespan = "entered"
               /\ exitCount = 0
               /\ Delivered(ShutdownTerminal) = {}

\* The coordinator sent lifespan.startup.complete for an application that
\* returned at once and is suspended in the receive of line 105, the server
\* not having sent lifespan.shutdown.
C15_Witness ==
    /\ app = "returned"
    /\ appSent = << >>
    /\ appRecvs = 0
    /\ pc = "receive_shutdown"
    /\ OwnStartupComplete # {}
    /\ inbox = << >>
    /\ supSent = 1

\* C16: every lifespan.shutdown.failed the server has received, the
\* application's own included, was delivered after the resource scope's
\* exit ran.
C16_ShutdownFailedAfterTeardown ==
    Delivered({ShutdownFailed}) # {} => exitCount = 1

\* A sequence of types the application sent, with every
\* lifespan.shutdown.complete removed, as messages of the application.
RECURSIVE WithoutShutdownComplete(_)
WithoutShutdownComplete(sent) ==
    IF sent = << >> THEN << >>
    ELSE IF Head(sent) = ShutdownComplete
    THEN WithoutShutdownComplete(Tail(sent))
    ELSE << Msg(Head(sent), "app", "") >> \o WithoutShutdownComplete(Tail(sent))

\* The delivered messages that came from the application, in order.
RECURSIVE FromApp(_)
FromApp(msgs) ==
    IF msgs = << >> THEN << >>
    ELSE IF Head(msgs).origin = "app"
    THEN << Head(msgs) >> \o FromApp(Tail(msgs))
    ELSE FromApp(Tail(msgs))

\* C17: at every moment the delivered messages that came from the
\* application are, in order and unchanged, the messages it has sent so far
\* without the lifespan.shutdown.complete ones (none is held back beyond
\* the send call), and while the application's call is running no message
\* originated by the coordinator has been delivered.
C17_ForwardingInOrder ==
    /\ FromApp(out) = WithoutShutdownComplete(appSent)
    /\ app = "running" => \A i \in 1..Len(out) : out[i].origin = "app"

\* The application sent three messages, one of them
\* lifespan.shutdown.complete, and the coordinator added its own after the
\* call.
C17_Witness ==
    /\ Len(appSent) = 3
    /\ ShutdownComplete \in send_events
    /\ Len(FromApp(out)) = 2
    /\ Len(out) > 2

\* The coordinator is at one of its own receives (line 102 or 105).
AtOwnReceive == pc \in {"receive_startup", "receive_shutdown"}

\* C18: the coordinator performs no receive of its own in a run whose
\* application sent lifespan.startup.complete or lifespan.startup.failed or
\* whose resource scope failed to enter, and at most two otherwise; a
\* receive it performs is for one of the two requests, fewer than two
\* messages having been taken by the application and the coordinator
\* together before it.
C18_BoundedOwnReceives ==
    /\ ( \/ StartupComplete \in send_events
         \/ StartupFailed \in send_events
         \/ lifespan = "enter_raised" ) => (mwRecvs = 0 /\ ~AtOwnReceive)
    /\ mwRecvs <= 2
    /\ AtOwnReceive => appRecvs + mwRecvs < 2

\* C19: once the server has supplied lifespan.startup and lifespan.shutdown
\* and both have been taken, the coordinator is not at a receive of its own:
\* nothing more will arrive, so a coordinator there stays suspended and its
\* call never ends, whatever the application received before it returned
\* or raised.
C19_NotSuspendedAfterShutdown ==
    (supSent = 2 /\ inbox = << >>) => ~AtOwnReceive

\* ------------------------------------------------------------------
\* The other variant: LifespanMiddleware.__call__ of
\* asgi_lifespan/_middleware.py.  Its lines 46-48, 62, 73, 74 and 76 are
\* the steps Call, EnterLifespan, CallApp, ReceiveStartup,
\* SendStartupComplete and ReceiveShutdown above; it differs in what the
\* application is given to receive and send with, in the except clause, in
\* its ledger and in what follows the async-with block.

\* Line 62: the application is given the server's receive itself.
AL_receive ==
    /\ pc = "in_app"
    /\ appRecvs < MaxAppRecvs
    /\ inbox # << >>
    /\ inbox' = Tail(inbox)
    /\ appRecvs' = appRecvs + 1
    /\ UNCHANGED << pc, send_events, rcv_events, supSent, out, exc, returning,
                    lifespan, exitCount, app, appSent, mwRecvs >>

\* Lines 24-28: wrapped_send records lifespan.startup.complete only and
\* passes every message on.
AL_wrapped_send(t) ==
    /\ pc = "in_app"
    /\ Len(appSent) < MaxAppSends
    /\ send_events' = IF t = StartupComplete
                      THEN send_events \cup {StartupComplete}
                      ELSE send_events
    /\ appSent' = Append(appSent, t)
    /\ out' = Append(out, Msg(t, "app", ""))
    /\ UNCHANGED << pc, rcv_events, inbox, supSent, exc, returning, lifespan,
                    exitCount, app, appRecvs, mwRecvs >>

AL_AppSend == \E t \in AppKinds : AL_wrapped_send(t)

\* Lines 63-70: `except Exception: pass` swallows what the application
\* raised unless it is a BaseException outside Exception, which goes on into
\* the exit stack; then the two tests on send_events.
AL_AfterApp ==
    /\ pc = "app_done"
    /\ \/ /\ app = "raised"
          /\ exc' = "AppError"
          /\ returning' = returning
          /\ pc' = "exit_lifespan"
       \/ /\ exc' = exc
          /\ IF StartupFailed \in send_events
             THEN returning' = TRUE /\ pc' = "exit_lifespan"
             ELSE /\ returning' = returning
                  /\ pc' = IF StartupComplete \notin send_events
                           THEN "receive_startup"
                           ELSE "exit_lifespan"
    /\ UNCHANGED << send_events, rcv_events, inbox, supSent, out, lifespan,
                    exitCount, app, appSent, appRecvs, mwRecvs >>

\* Lines 30-44: cleanup() after its yield; nothing follows the async-with
\* block in this variant.
AL_cleanup ==
    /\ pc = "cleanup"
    /\ out' = Append(out, Msg(CleanupMessage(exc, send_events), "coordinator",
                              IF exc = "None" THEN "" ELSE exc))
    /\ pc' = IF exc # "None" THEN "raised" ELSE "returned"
    /\ UNCHANGED << send_events, rcv_events, inbox, supSent, exc, returning,
                    lifespan, exitCount, app, appSent, appRecvs, mwRecvs >>

AL_Next ==
    \/ Call
    \/ EnterLifespan
    \/ CallApp
    \/ AL_AfterApp
    \/ ReceiveStartup
    \/ SendStartupComplete
    \/ ReceiveShutdown
    \/ ExitLifespan
    \/ AL_cleanup
    \/ ServerSend
    \/ AL_receive
    \/ AL_AppSend
    \/ AppReturn
    \/ AppRaise

AL_Spec == Init /\ [][AL_Next]_vars

\* C20: in the asgi_lifespan variant, for a participant that sent
\* lifespan.startup.complete and then lifespan.shutdown.complete, no
\* lifespan.shutdown.complete has reached the server before the resource
\* scope's exit finished, and by the end of a run without fault exactly one
\* has.
C20_VariantOwnsShutdownComplete ==
    appSent = << StartupComplete, ShutdownComplete >> =>
        /\ Delivered({ShutdownComplete}) # {} => exitCount = 1
        /\ (Done /\ exc = "None") =>
               Cardinality(Delivered({ShutdownComplete})) = 1

====
